---- MODULE Spec2Model ----
(***************************************************************************)
(* Model of the browser client of AiDUT (src/app/static/js/main.js, class  *)
(* AIPhoneAssistant): the execution stream reader (executeTask and         *)
(* handleStepResult) and the wireless pairing poll                         *)
(* (startWirelessPairing .. connectWirelessDevice).                        *)
(*                                                                         *)
(* Text is a sequence of one-character strings.  The response body of      *)
(* '/api/chat/execute' is a sequence of bytes: an ASCII byte is written as *)
(* its character, and the two bytes "C3" "A9" are the UTF-8 encoding of    *)
(* the character U+00E9.  A JSON object is written in a compact form, one *)
(* character per field: "{" kind [ shot ] [ message ] "}" (see JSONparse). *)
(***************************************************************************)
EXTENDS Integers, Sequences, FiniteSets, TLC

\* ------------------------------------------------------------------ bounds
\* lines the server sends over the execution streams of one run of the
\* stream reader
MaxLines == 3
\* lines the server sends in one run of the render log
RenderLines == 2
\* lines the server sends in one run of the session life cycle
SessionLines == 1
\* execution sessions (accepted executeTask calls) of one run
MaxTasks == 2
\* requests of one kind in flight at the same time
MaxInFlight == 1
\* connect requests of the USB tab in one run
MaxConnects == 2
\* connect requests of the pairing dialog in one run
MaxPairConnects == 2
\* status requests of the pairing poll in flight at the same time
MaxPolls == 2

\* ------------------------------------------------------------- text helpers
NL == "\n"

Null == "null"

Last(s) == s[Len(s)]

Front(s) == SubSeq(s, 1, Len(s) - 1)

\* String.prototype.indexOf for a single character (1-based); 0 when absent
IndexOf(s, c) ==
    IF \E i \in 1..Len(s) : s[i] = c
    THEN CHOOSE i \in 1..Len(s) : s[i] = c /\ \A j \in 1..(i - 1) : s[j] # c
    ELSE 0

RECURSIVE split(_)
\* buffer.split('\n'): the segments between newlines; always at least one
split(s) ==
    LET i == IndexOf(s, NL)
    IN  IF i = 0 THEN <<s>>
        ELSE <<SubSeq(s, 1, i - 1)>> \o split(SubSeq(s, i + 1, Len(s)))

\* line.startsWith(prefix)
startsWith(line, prefix) ==
    /\ Len(line) >= Len(prefix)
    /\ SubSeq(line, 1, Len(prefix)) = prefix

\* line.slice(n): the text after the first n characters
slice(line, n) == SubSeq(line, n + 1, Len(line))

RECURSIVE trimStart(_)
trimStart(s) ==
    IF s # <<>> /\ s[1] = " " THEN trimStart(Tail(s)) ELSE s

RECURSIVE trimEnd(_)
trimEnd(s) ==
    IF s # <<>> /\ Last(s) = " " THEN trimEnd(Front(s)) ELSE s

\* String.prototype.trim
trim(s) == trimEnd(trimStart(s))

DataPrefix == <<"d", "a", "t", "a", ":", " ">>

\* ------------------------------------------------------------ TextDecoder
Replacement == "U+FFFD"

\* UTF-8 decoding of a byte sequence that may be followed by more bytes:
\* "C3" "A9" is one character, a lead byte at the very end is kept back as
\* pending, a lead byte without its continuation and a continuation without
\* its lead byte are replaced
decodeBytes(bytes) ==
    LET n == Len(bytes)
        Continues(i) == i > 1 /\ bytes[i] = "A9" /\ bytes[i - 1] = "C3"
        CharAt(i) ==
            IF Continues(i) THEN "skip"
            ELSE IF bytes[i] = "C3" THEN
                IF i = n THEN "skip"
                ELSE IF bytes[i + 1] = "A9" THEN "U+00E9"
                ELSE Replacement
            ELSE IF bytes[i] = "A9" THEN Replacement
            ELSE bytes[i]
    IN  [chars |-> SelectSeq([i \in 1..n |-> CharAt(i)], LAMBDA c : c # "skip"),
         pending |-> IF n > 0 /\ bytes[n] = "C3" THEN <<"C3">> ELSE <<>>]

\* decoder.decode(value, { stream: true }) of a decoder holding `pending`
decode(pending, value) == decodeBytes(pending \o value)

\* ------------------------------------------------------------- JSON.parse
KindOfChar ==
    [c \in {"s", "i", "u", "t", "a", "d", "c", "f", "e", "p", "w", "x"} |->
        CASE c = "s" -> "start"
          [] c = "i" -> "info"
          [] c = "u" -> "update"
          [] c = "t" -> "thinking"
          [] c = "a" -> "action"
          [] c = "d" -> "done"
          [] c = "c" -> "completed"
          [] c = "f" -> "failed"
          [] c = "e" -> "error"
          [] c = "p" -> "stopped"
          [] c = "w" -> "warning"
          [] c = "x" -> "other"]

MessageChars == {"A", "B", "U+00E9"}

\* the screenshot field of an object text: "#" and "%" stand for two
\* different image references
ShotOfChar == [c \in {"#", "%"} |-> IF c = "#" THEN "shot" ELSE "shot2"]

\* the body of an object text after the kind character:
\* [ "#" | "%" ] [ message ]
ValidFields(f) ==
    \/ f = <<>>
    \/ Len(f) = 1 /\ (f[1] \in DOMAIN ShotOfChar \/ f[1] \in MessageChars)
    \/ Len(f) = 2 /\ f[1] \in DOMAIN ShotOfChar /\ f[2] \in MessageChars

\* JSON.parse(text): ok is FALSE when it throws SyntaxError
JSONparse(text) ==
    IF text = <<"n", "u", "l", "l">> THEN
        [ok |-> TRUE, value |-> [json |-> "null"]]
    ELSE IF /\ Len(text) >= 3
            /\ text[1] = "{"
            /\ Last(text) = "}"
            /\ text[2] \in DOMAIN KindOfChar
            /\ ValidFields(SubSeq(text, 3, Len(text) - 1))
    THEN
        LET f == SubSeq(text, 3, Len(text) - 1)
            shot == f # <<>> /\ f[1] \in DOMAIN ShotOfChar
            msg == IF shot THEN Tail(f) ELSE f
        IN  [ok |-> TRUE,
             value |-> [json |-> "object",
                        type |-> KindOfChar[text[2]],
                        message |-> msg,
                        screenshot |-> IF shot THEN ShotOfChar[f[1]] ELSE Null]]
    ELSE [ok |-> FALSE, value |-> [json |-> "none"]]

\* ------------------------------------------------------------- render log
\* An entry of chatContainer: its class and the text it displays
\* (escapeHtml followed by the innerHTML assignment displays the text itself;
\* a missing or empty message displays the empty text).
Entry(cls, text) == [cls |-> cls, text |-> text]

WelcomeEntry == Entry("welcome", <<>>)

\* position of the first entry of class cls (querySelector), 0 when none
querySelector(log, cls) ==
    IF \E i \in 1..Len(log) : log[i].cls = cls
    THEN CHOOSE i \in 1..Len(log) :
            log[i].cls = cls /\ \A j \in 1..(i - 1) : log[j].cls # cls
    ELSE 0

\* element.remove() of the entry at position i
RemoveAt(log, i) == SubSeq(log, 1, i - 1) \o SubSeq(log, i + 1, Len(log))

addMessage(log, role, content) == Append(log, Entry(role, content))

addSystemMessage(log, message, type) == Append(log, Entry(type, message))

\* variant: every 'thinking' event appends a new placeholder
updateOrAddThinking_AlwaysAppend(log, message) ==
    Append(log, Entry("thinking", message))

updateOrAddThinking(log, message) ==
    LET i == querySelector(log, "thinking")
    IN  IF i # 0 THEN [log EXCEPT ![i].text = message]
        ELSE Append(log, Entry("thinking", message))

removeThinking(log) ==
    LET i == querySelector(log, "thinking")
    IN  IF i # 0 THEN RemoveAt(log, i) ELSE log

\* variant: the screenshot is shown only by the cases of the switch
handleStepResult_ShotInsideSwitch(ui, data) ==
    IF data.json = "null" THEN [chat |-> ui.chat, screen |-> ui.screen, threw |-> TRUE]
    ELSE
        LET scr == IF data.screenshot # Null /\ data.type # "other"
                   THEN data.screenshot ELSE ui.screen
            log == ui.chat
            out ==
                CASE data.type \in {"start", "info", "update"} ->
                        addSystemMessage(log, data.message, "info")
                  [] data.type = "thinking" ->
                        updateOrAddThinking(log, data.message)
                  [] data.type = "action" ->
                        addSystemMessage(removeThinking(log), data.message, "action")
                  [] data.type = "done" ->
                        addSystemMessage(log, data.message, "success")
                  [] data.type = "completed" ->
                        addSystemMessage(log, data.message, "success")
                  [] data.type \in {"failed", "error"} ->
                        addSystemMessage(removeThinking(log), data.message, "error")
                  [] data.type = "stopped" ->
                        addSystemMessage(removeThinking(log), data.message, "warning")
                  [] data.type = "warning" ->
                        addSystemMessage(log, data.message, "warning")
                  [] OTHER -> log
        IN  [chat |-> out, screen |-> scr, threw |-> FALSE]

\* handleStepResult(data) applied to the render state ui = [chat, screen];
\* threw is TRUE when reading data.screenshot of null throws TypeError
handleStepResult(ui, data) ==
    IF data.json = "null" THEN [chat |-> ui.chat, screen |-> ui.screen, threw |-> TRUE]
    ELSE
        LET scr == IF data.screenshot # Null THEN data.screenshot ELSE ui.screen
            log == ui.chat
            out ==
                CASE data.type \in {"start", "info", "update"} ->
                        addSystemMessage(log, data.message, "info")
                  [] data.type = "thinking" ->
                        updateOrAddThinking(log, data.message)
                  [] data.type = "action" ->
                        addSystemMessage(removeThinking(log), data.message, "action")
                  [] data.type = "done" ->
                        addSystemMessage(log, data.message, "success")
                  [] data.type = "completed" ->
                        addSystemMessage(log, data.message, "success")
                  [] data.type \in {"failed", "error"} ->
                        addSystemMessage(removeThinking(log), data.message, "error")
                  [] data.type = "stopped" ->
                        addSystemMessage(removeThinking(log), data.message, "warning")
                  [] data.type = "warning" ->
                        addSystemMessage(log, data.message, "warning")
                  [] OTHER -> log
        IN  [chat |-> out, screen |-> scr, threw |-> FALSE]

RECURSIVE ProcessLines_StopAtBadLine(_, _)
\* variant: a 'data: ' line that does not parse ends the loop over the lines
ProcessLines_StopAtBadLine(st, lines) ==
    IF lines = <<>> THEN st
    ELSE
        LET line == Head(lines)
            p == JSONparse(slice(line, 6))
        IN  IF startsWith(line, DataPrefix) /\ ~p.ok THEN st
            ELSE IF startsWith(line, DataPrefix) THEN
                LET r == handleStepResult([chat |-> st.chat, screen |-> st.screen], p.value)
                IN  ProcessLines_StopAtBadLine(
                        [chat |-> r.chat, screen |-> r.screen,
                         handed |-> Append(st.handed, p.value)],
                        Tail(lines))
            ELSE ProcessLines_StopAtBadLine(st, Tail(lines))

RECURSIVE ProcessLines_LastFirst(_, _)
\* variant: the complete lines of a fragment are processed from the last to
\* the first
ProcessLines_LastFirst(st, lines) ==
    IF lines = <<>> THEN st
    ELSE
        LET line == Last(lines)
            p == JSONparse(slice(line, 6))
            next ==
                IF startsWith(line, DataPrefix) /\ p.ok THEN
                    LET r == handleStepResult([chat |-> st.chat, screen |-> st.screen], p.value)
                    IN  [chat |-> r.chat, screen |-> r.screen,
                         handed |-> Append(st.handed, p.value)]
                ELSE st
        IN  ProcessLines_LastFirst(next, Front(lines))

RECURSIVE ProcessLines(_, _)
\* the for loop over the complete lines of one fragment; st = [chat, screen,
\* handed], handed being the records passed to handleStepResult so far
ProcessLines(st, lines) ==
    IF lines = <<>> THEN st
    ELSE
        LET line == Head(lines)
            p == JSONparse(slice(line, 6))
            next ==
                IF startsWith(line, DataPrefix) /\ p.ok THEN
                    LET r == handleStepResult([chat |-> st.chat, screen |-> st.screen], p.value)
                    IN  [chat |-> r.chat, screen |-> r.screen,
                         handed |-> Append(st.handed, p.value)]
                ELSE st
        IN  ProcessLines(next, Tail(lines))

\* variant: the last segment is not kept for the next fragment
ReadIteration_DropsPartialLine(st, pending, buffer, value) ==
    LET d == decode(pending, value)
        lines == split(d.chars)
        r == ProcessLines(st, Front(lines))
    IN  [chat |-> r.chat, screen |-> r.screen, handed |-> r.handed,
         pending |-> d.pending, buffer |-> <<>>, lines |-> Front(lines)]

\* variant: the text is split at its first newline only
ReadIteration_SplitsOnce(st, pending, buffer, value) ==
    LET d == decode(pending, value)
        all == buffer \o d.chars
        i == IndexOf(all, NL)
        lines == IF i = 0 THEN <<all>>
                 ELSE <<SubSeq(all, 1, i - 1), SubSeq(all, i + 1, Len(all))>>
        r == ProcessLines(st, Front(lines))
    IN  [chat |-> r.chat, screen |-> r.screen, handed |-> r.handed,
         pending |-> d.pending, buffer |-> Last(lines), lines |-> Front(lines)]

\* one iteration of the while loop for a fragment `value`:
\* decode, append to buffer, split, keep the last segment, process the rest;
\* `lines` are the segments the for loop went over
ReadIteration(st, pending, buffer, value) ==
    LET d == decode(pending, value)
        lines == split(buffer \o d.chars)
        r == ProcessLines(st, Front(lines))
    IN  [chat |-> r.chat, screen |-> r.screen, handed |-> r.handed,
         pending |-> d.pending, buffer |-> Last(lines), lines |-> Front(lines)]

\* ------------------------------------------------------------------- state
VARIABLES
    isConnected,        \* this.isConnected
    isExecuting,        \* this.isExecuting
    btnSendHidden,      \* btnSend has class 'hidden'
    btnStopHidden,      \* btnStop has class 'hidden'
    inputDisabled,      \* messageInput.disabled
    messageInput,       \* messageInput.value
    chat,               \* the children of chatContainer, in document order
    deviceScreen,       \* deviceScreen.src
    sessions,           \* the activations of executeTask that passed its guards
    screenshotPending,  \* '/api/device/screenshot' requests in flight
    connectPending,     \* '/api/device/connect' requests in flight
    connectRequests,    \* the serials of the connect requests issued so far
    screenRefreshInterval, \* this.screenRefreshInterval (0 is null)
    refreshTimers,      \* the live intervals created by startScreenRefresh
    stopPending,        \* '/api/chat/stop' requests in flight
    clearPending,       \* '/api/chat/clear' requests in flight
    linesLeft,          \* lines the server may still send
    menu,               \* the lines the server chooses from
    cuts,               \* where the network cuts the body: "any" or "line"
    watch,              \* whether the run counts the failures of the poll
    connectModalHidden, \* connectModal has class 'hidden'
    currentTab,         \* this.currentTab
    wirelessIdleHidden, \* wirelessIdle has class 'hidden'
    wirelessPairingHidden, \* wirelessPairing has class 'hidden'
    wirelessSuccessHidden, \* wirelessSuccess has class 'hidden'
    wirelessStatusClass,   \* the type in wirelessStatus.className
    statusMessage,      \* the text of .status-message
    statusIcon,         \* the text of .status-icon
    wirelessDevice,     \* wirelessDevice.textContent
    wirelessPollingInterval, \* this.wirelessPollingInterval (0 is null)
    pollTimers,         \* the live intervals created by startWirelessPolling
    statusPending,      \* '/api/device/wireless/status' requests in flight
    startPending,       \* '/api/device/wireless/start' requests in flight
    stopPairPending,    \* '/api/device/wireless/stop' requests in flight
    chain,              \* how far the statuses handled since the last start
                        \* follow waiting_scan .. connected; -1 when they do not
    pairConnects,       \* connectWirelessDevice calls since the last start
    timedOut,           \* 'timeout' was handled since the last start
    cancelled,          \* stopWirelessPairing was called since the last start
    screenTicks,        \* ticks of the refresh intervals so far, modulo 2
    pollFailures,       \* status responses without effect (a console.error
                        \* call or success false) so far, modulo 2, in the
                        \* runs that watch them
    ignoredStatuses,    \* statuses handled by no case of the switch of
                        \* handleWirelessStatus so far, modulo 2, in the runs
                        \* that watch them
    clickPending,       \* '/api/device/click' requests in flight
    keyPending,         \* '/api/device/keyevent' requests in flight
    refreshDelays,      \* pending setTimeout(() => this.refreshScreen(), 500)
    controlCalls        \* calls of handleScreenClick and pressKey so far,
                        \* modulo 2

execVars == <<isExecuting, btnSendHidden, btnStopHidden, inputDisabled,
              messageInput, chat, sessions, stopPending, clearPending,
              linesLeft, menu, cuts, watch>>

manualVars == <<clickPending, keyPending, refreshDelays, controlCalls>>

devVars == <<isConnected, deviceScreen, screenshotPending, connectPending,
             connectRequests, screenRefreshInterval, refreshTimers, screenTicks, manualVars>>

pairVars == <<connectModalHidden, currentTab, wirelessIdleHidden,
              wirelessPairingHidden, wirelessSuccessHidden, wirelessStatusClass,
              statusMessage, statusIcon, wirelessDevice, wirelessPollingInterval,
              pollTimers, statusPending, startPending, stopPairPending,
              chain, pairConnects, timedOut, cancelled, pollFailures, ignoredStatuses>>

vars == <<execVars, devVars, pairVars>>

NoTimer == 0

\* ---------------------------------------------------------- server inputs
Data(payload) == DataPrefix \o payload

\* lines for the decoder: a record, a record with a two-byte character, a
\* truncated record, a blank line, a line with a damaged prefix
DecodeMenu ==
    { Data(<<"{", "a", "#", "B", "}">>),
      Data(<<"{", "t", "C3", "A9", "}">>),
      Data(<<"{", "t", "A">>),
      <<>>,
      <<"d", "a", "t", "a", ":", "{", "d", "}">> }

\* lines for the render log: one record of each way handleStepResult treats
\* the thinking placeholder
RenderMenu ==
    { Data(<<"{", "t", "A", "}">>),
      Data(<<"{", "t", "B", "}">>),
      Data(<<"{", "a", "A", "}">>),
      Data(<<"{", "d", "}">>) }

RECURSIVE SeqsOf(_, _)
\* the sequences of exactly n elements of S
SeqsOf(S, n) ==
    IF n = 0 THEN { <<>> }
    ELSE { Append(q, x) : q \in SeqsOf(S, n - 1), x \in S }

RECURSIVE Join(_)
\* the lines, each followed by a newline
Join(ls) ==
    IF ls = <<>> THEN <<>> ELSE Head(ls) \o <<NL>> \o Join(Tail(ls))

\* the text the user may type, and the data-msg of the quick buttons
InputTexts == { <<>>, <<" ">>, <<" ", "g", " ">> }

QuickMsgs == { <<"q">> }

Serials == { <<>>, <<" ">>, <<"usb1">> }

Frames == { "frame" }

\* -------------------------------------------------------------------- Init
InitExec ==
    /\ isExecuting = FALSE
    /\ btnSendHidden = FALSE
    /\ btnStopHidden = TRUE
    /\ inputDisabled = FALSE
    /\ messageInput = <<>>
    /\ chat = <<WelcomeEntry>>
    /\ sessions = <<>>
    /\ stopPending = 0
    /\ clearPending = 0

InitPair ==
    /\ connectModalHidden = TRUE
    /\ currentTab = "usb"
    /\ wirelessIdleHidden = FALSE
    /\ wirelessPairingHidden = TRUE
    /\ wirelessSuccessHidden = TRUE
    /\ wirelessStatusClass = ""
    /\ statusMessage = ""
    /\ statusIcon = ""
    /\ wirelessDevice = <<>>
    /\ wirelessPollingInterval = NoTimer
    /\ pollTimers = {}
    /\ statusPending = 0
    /\ startPending = 0
    /\ stopPairPending = 0
    /\ chain = 0
    /\ pairConnects = 0
    /\ timedOut = FALSE
    /\ cancelled = FALSE
    /\ pollFailures = 0
    /\ ignoredStatuses = 0

InitDev ==
    /\ isConnected = FALSE
    /\ deviceScreen = Null
    /\ screenshotPending = 0
    /\ connectPending = 0
    /\ connectRequests = <<>>
    /\ screenRefreshInterval = NoTimer
    /\ refreshTimers = {}
    /\ screenTicks = 0
    /\ clickPending = 0
    /\ keyPending = 0
    /\ refreshDelays = 0
    /\ controlCalls = 0

\* ----------------------------------------------------------------- device
\* refreshScreen() up to its fetch: the number of screenshot requests in
\* flight after the call
refreshScreen(pending) == IF isConnected THEN pending + 1 ELSE pending

NewTimer(live) == IF live = {} THEN 1 ELSE 1 + CHOOSE m \in live : \A t \in live : t <= m

\* ------------------------------------------------------- pairing display
\* the texts the pairing panel shows
MsgWaitService == "waiting for the service"
MsgScan == "scan the QR code"
MsgPairing == "pairing"
MsgPairSuccess == "paired, waiting for the connection"
MsgConnecting == "connecting"
MsgFailed == "operation failed"
MsgTimeout == "pairing timed out"
MsgStartFailed == "start failed"
MsgStartError == "start of the pairing service failed"

statusView == <<statusMessage, wirelessStatusClass, statusIcon>>
pollTimer == <<wirelessPollingInterval, pollTimers>>
panels == <<wirelessIdleHidden, wirelessPairingHidden, wirelessSuccessHidden>>

\* updateWirelessStatus(message, type)
updateWirelessStatus(message, type) ==
    /\ statusMessage' = message
    /\ wirelessStatusClass' = type
    /\ statusIcon' = IF type = "pairing" THEN "hourglass"
                     ELSE IF type = "success" THEN "check"
                     ELSE IF type = "error" THEN "cross"
                     ELSE statusIcon

\* stopWirelessPolling()
stopWirelessPolling ==
    /\ wirelessPollingInterval' = NoTimer
    /\ pollTimers' = pollTimers \ {wirelessPollingInterval}

\* variant: startWirelessPolling() without its stopWirelessPolling() call
startWirelessPolling_KeepsPrevious ==
    /\ wirelessPollingInterval' = NewTimer(pollTimers)
    /\ pollTimers' = pollTimers \cup {NewTimer(pollTimers)}

\* startWirelessPolling(): the interval callback is PollTick
startWirelessPolling ==
    LET live == pollTimers \ {wirelessPollingInterval}
    IN  /\ wirelessPollingInterval' = NewTimer(live)
        /\ pollTimers' = live \cup {NewTimer(live)}

\* resetWirelessUI(); the icon and the message keep their last values
resetWirelessUI ==
    /\ wirelessIdleHidden' = FALSE
    /\ wirelessPairingHidden' = TRUE
    /\ wirelessSuccessHidden' = TRUE
    /\ wirelessStatusClass' = ""

\* hideConnectModal()
hideConnectModal ==
    /\ connectModalHidden' = TRUE
    /\ stopWirelessPolling

\* connectDevice() up to its fetch; the confirm button is in the footer that
\* switchTab shows for the USB tab of the open dialog
ConnectDevice ==
    \E v \in Serials :
        LET serial == trim(v)
        IN  /\ ~connectModalHidden
            /\ currentTab = "usb"
            /\ IF serial = <<>> THEN UNCHANGED vars
               ELSE
                 /\ Len(connectRequests) < MaxConnects
                 /\ connectPending' = connectPending + 1
                 /\ connectRequests' = Append(connectRequests, serial)
                 /\ UNCHANGED <<isConnected, deviceScreen, screenshotPending,
                                screenRefreshInterval, refreshTimers, screenTicks, manualVars>>
                 /\ UNCHANGED execVars
                 /\ hideConnectModal
                 /\ UNCHANGED <<currentTab, wirelessIdleHidden,
                                wirelessPairingHidden, wirelessSuccessHidden,
                                wirelessStatusClass, statusMessage, statusIcon,
                                wirelessDevice, statusPending, startPending,
                                stopPairPending, chain, pairConnects, timedOut,
                                cancelled, pollFailures, ignoredStatuses>>

\* the rest of connectDevice() / connectWirelessDevice() once the response
\* of '/api/device/connect' is there; ok is data.success, FALSE also standing
\* for a rejected fetch
ConnectResponse ==
    /\ connectPending > 0
    /\ connectPending' = connectPending - 1
    /\ \E ok \in BOOLEAN :
        IF ok THEN
            /\ isConnected' = TRUE
            \* startScreenRefresh()
            /\ screenshotPending' = screenshotPending + 1
            /\ screenRefreshInterval' = NewTimer(refreshTimers)
            /\ refreshTimers' = refreshTimers \cup {NewTimer(refreshTimers)}
        ELSE
            UNCHANGED <<isConnected, screenshotPending, screenRefreshInterval,
                        refreshTimers>>
    /\ UNCHANGED <<deviceScreen, connectRequests, screenTicks, manualVars>>
    /\ UNCHANGED <<execVars, pairVars>>

\* ----------------------------------------------------------------- pairing
\* showConnectModal(): the connect button of the page, reachable while the
\* dialog does not cover it
ShowConnectModal ==
    /\ connectModalHidden
    /\ connectModalHidden' = FALSE
    \* switchTab('usb')
    /\ currentTab' = "usb"
    /\ resetWirelessUI
    /\ UNCHANGED <<statusMessage, statusIcon, wirelessDevice, pollTimer,
                   statusPending, startPending, stopPairPending, chain,
                   pairConnects, timedOut, cancelled, pollFailures, ignoredStatuses>>
    /\ UNCHANGED <<execVars, devVars>>

\* the cancel button, the close button and the overlay of the dialog
HideConnectModal ==
    /\ ~connectModalHidden
    /\ hideConnectModal
    /\ UNCHANGED <<currentTab, panels, statusView, wirelessDevice,
                   statusPending, startPending, stopPairPending, chain,
                   pairConnects, timedOut, cancelled, pollFailures, ignoredStatuses>>
    /\ UNCHANGED <<execVars, devVars>>

Tabs == {"usb", "wireless"}

\* switchTab(tab)
SwitchTab ==
    /\ ~connectModalHidden
    /\ \E tab \in Tabs :
        /\ currentTab' = tab
        /\ IF tab = "wireless"
           THEN stopWirelessPolling /\ resetWirelessUI
           ELSE UNCHANGED <<pollTimer, panels, wirelessStatusClass>>
    /\ UNCHANGED <<connectModalHidden, statusMessage, statusIcon,
                   wirelessDevice, statusPending, startPending,
                   stopPairPending, chain, pairConnects, timedOut, cancelled,
                   pollFailures, ignoredStatuses>>
    /\ UNCHANGED <<execVars, devVars>>

\* startWirelessPairing() up to its fetch; the button is in the idle panel
\* of the wireless tab
StartWirelessPairing ==
    /\ ~connectModalHidden
    /\ currentTab = "wireless"
    /\ ~wirelessIdleHidden
    /\ startPending < MaxInFlight
    /\ wirelessIdleHidden' = TRUE
    /\ wirelessPairingHidden' = FALSE
    /\ wirelessSuccessHidden' = TRUE
    /\ updateWirelessStatus(MsgWaitService, "pairing")
    /\ startPending' = startPending + 1
    /\ chain' = 0
    /\ pairConnects' = 0
    /\ timedOut' = FALSE
    /\ cancelled' = FALSE
    /\ UNCHANGED <<connectModalHidden, currentTab, wirelessDevice, pollTimer,
                   statusPending, stopPairPending, pollFailures, ignoredStatuses>>
    /\ UNCHANGED <<execVars, devVars>>

\* what data.message of a response can be
ServerMessages == {"", "server message"}

\* the rest of startWirelessPairing() once the response of
\* '/api/device/wireless/start' is there
StartResponse ==
    /\ startPending > 0
    /\ startPending' = startPending - 1
    /\ \/ \* data.success
          /\ updateWirelessStatus(MsgScan, "pairing")
          /\ startWirelessPolling
       \/ \* data.success is false
          /\ \E message \in ServerMessages :
                updateWirelessStatus(IF message # "" THEN message
                                     ELSE MsgStartFailed, "error")
          /\ UNCHANGED pollTimer
       \/ \* the fetch or response.json() threw
          /\ updateWirelessStatus(MsgStartError, "error")
          /\ UNCHANGED pollTimer
    /\ UNCHANGED <<connectModalHidden, currentTab, panels, wirelessDevice,
                   statusPending, stopPairPending, chain, pairConnects,
                   timedOut, cancelled, pollFailures, ignoredStatuses>>
    /\ UNCHANGED <<execVars, devVars>>

\* stopWirelessPairing() up to its fetch; the button is in the pairing panel
StopWirelessPairing ==
    /\ ~connectModalHidden
    /\ currentTab = "wireless"
    /\ ~wirelessPairingHidden
    /\ stopPairPending < MaxInFlight
    /\ stopWirelessPolling
    /\ stopPairPending' = stopPairPending + 1
    /\ cancelled' = TRUE
    /\ UNCHANGED <<connectModalHidden, currentTab, panels, statusView,
                   wirelessDevice, statusPending, startPending, chain,
                   pairConnects, timedOut, pollFailures, ignoredStatuses>>
    /\ UNCHANGED <<execVars, devVars>>

\* the rest of stopWirelessPairing(), whether its fetch succeeded or not
StopPairResponse ==
    /\ stopPairPending > 0
    /\ stopPairPending' = stopPairPending - 1
    /\ resetWirelessUI
    /\ UNCHANGED <<connectModalHidden, currentTab, statusMessage, statusIcon,
                   wirelessDevice, pollTimer, statusPending, startPending,
                   chain, pairConnects, timedOut, cancelled, pollFailures, ignoredStatuses>>
    /\ UNCHANGED <<execVars, devVars>>

\* a tick of an interval of startWirelessPolling up to its fetch
PollTick ==
    /\ \E t \in pollTimers : t # NoTimer
    /\ statusPending < MaxPolls
    /\ statusPending' = statusPending + 1
    /\ UNCHANGED <<connectModalHidden, currentTab, panels, statusView,
                   wirelessDevice, pollTimer, startPending, stopPairPending,
                   chain, pairConnects, timedOut, cancelled, pollFailures, ignoredStatuses>>
    /\ UNCHANGED <<execVars, devVars>>

\* showWirelessSuccess(ip, port)
showWirelessSuccess(ip, port) ==
    /\ wirelessPairingHidden' = TRUE
    /\ wirelessSuccessHidden' = FALSE
    /\ wirelessDevice' = <<"device address: ", ip, ":", port>>

\* connectWirelessDevice(ip, port) with the serial built from the ip alone
connectWirelessDevice_SerialWithoutPort(ip, port) ==
    /\ hideConnectModal
    /\ connectPending' = connectPending + 1
    /\ connectRequests' = Append(connectRequests, <<ip>>)
    /\ pairConnects' = pairConnects + 1

\* connectWirelessDevice(ip, port) up to its fetch; ConnectResponse is its
\* rest
connectWirelessDevice(ip, port) ==
    LET serial == <<ip, ":", port>>
    IN  /\ hideConnectModal
        /\ connectPending' = connectPending + 1
        /\ connectRequests' = Append(connectRequests, serial)
        /\ pairConnects' = pairConnects + 1

StatusOrder == <<"waiting_scan", "pairing", "pair_success", "connecting",
                 "connected">>

\* the statuses that a case of the switch of handleWirelessStatus acts on
SwitchCases == {"waiting_scan", "pairing", "pair_success", "connecting",
                "connected", "pair_failed", "connect_failed", "error",
                "timeout"}

\* variant: a status the switch does not name is reported as a failure
handleWirelessStatus_UnknownIsError(data) ==
    LET status == data.status
        message == data.message
        quiet == UNCHANGED <<connectModalHidden, pollTimer,
                             wirelessPairingHidden, wirelessSuccessHidden,
                             wirelessDevice, connectPending, connectRequests,
                             pairConnects>>
    IN  /\ chain' = IF chain >= 0 /\ chain < Len(StatusOrder)
                       /\ status = StatusOrder[chain + 1]
                    THEN chain + 1 ELSE -1
        /\ timedOut' = (timedOut \/ status = "timeout")
        /\ ignoredStatuses' = IF watch /\ status \notin SwitchCases
                              THEN 1 - ignoredStatuses ELSE ignoredStatuses
        /\ CASE status = "waiting_scan" ->
                    updateWirelessStatus(MsgScan, "pairing") /\ quiet
             [] status = "pairing" ->
                    updateWirelessStatus(MsgPairing, "pairing") /\ quiet
             [] status = "pair_success" ->
                    updateWirelessStatus(MsgPairSuccess, "pairing") /\ quiet
             [] status = "connecting" ->
                    updateWirelessStatus(MsgConnecting, "pairing") /\ quiet
             [] status = "connected" ->
                    /\ stopWirelessPolling
                    /\ showWirelessSuccess(data.device_ip, data.device_port)
                    /\ connectWirelessDevice(data.device_ip, data.device_port)
                    /\ UNCHANGED statusView
             [] status \in {"pair_failed", "connect_failed", "error"} ->
                    /\ updateWirelessStatus(IF message # "" THEN message
                                            ELSE MsgFailed, "error")
                    /\ quiet
             [] status = "timeout" ->
                    /\ updateWirelessStatus(MsgTimeout, "error")
                    /\ stopWirelessPolling
                    /\ UNCHANGED <<connectModalHidden, wirelessPairingHidden,
                                   wirelessSuccessHidden, wirelessDevice,
                                   connectPending, connectRequests,
                                   pairConnects>>
             [] OTHER ->
                    updateWirelessStatus(MsgFailed, "error") /\ quiet

\* handleWirelessStatus(data)
handleWirelessStatus(data) ==
    LET status == data.status
        message == data.message
        quiet == UNCHANGED <<connectModalHidden, pollTimer,
                             wirelessPairingHidden, wirelessSuccessHidden,
                             wirelessDevice, connectPending, connectRequests,
                             pairConnects>>
    IN  /\ chain' = IF chain >= 0 /\ chain < Len(StatusOrder)
                       /\ status = StatusOrder[chain + 1]
                    THEN chain + 1 ELSE -1
        /\ timedOut' = (timedOut \/ status = "timeout")
        /\ ignoredStatuses' = IF watch /\ status \notin SwitchCases
                              THEN 1 - ignoredStatuses ELSE ignoredStatuses
        /\ CASE status = "waiting_scan" ->
                    updateWirelessStatus(MsgScan, "pairing") /\ quiet
             [] status = "pairing" ->
                    updateWirelessStatus(MsgPairing, "pairing") /\ quiet
             [] status = "pair_success" ->
                    updateWirelessStatus(MsgPairSuccess, "pairing") /\ quiet
             [] status = "connecting" ->
                    updateWirelessStatus(MsgConnecting, "pairing") /\ quiet
             [] status = "connected" ->
                    /\ stopWirelessPolling
                    /\ showWirelessSuccess(data.device_ip, data.device_port)
                    /\ connectWirelessDevice(data.device_ip, data.device_port)
                    /\ UNCHANGED statusView
             [] status \in {"pair_failed", "connect_failed", "error"} ->
                    /\ updateWirelessStatus(IF message # "" THEN message
                                            ELSE MsgFailed, "error")
                    /\ quiet
             [] status = "timeout" ->
                    /\ updateWirelessStatus(MsgTimeout, "error")
                    /\ stopWirelessPolling
                    /\ UNCHANGED <<connectModalHidden, wirelessPairingHidden,
                                   wirelessSuccessHidden, wirelessDevice,
                                   connectPending, connectRequests,
                                   pairConnects>>
             [] OTHER -> \* 'idle' and every status the switch does not name
                    UNCHANGED statusView /\ quiet

Statuses == {"waiting_scan", "pairing", "pair_success", "connecting",
             "connected", "pair_failed", "connect_failed", "error", "timeout",
             "idle", "unknown"}

Addrs == {[ip |-> "10.0.0.5", port |-> "5555"],
          [ip |-> "10.0.0.6", port |-> "37000"]}

\* the bodies of '/api/device/wireless/status' that have data.success
StatusResponses ==
    {[status |-> st, message |-> m, device_ip |-> Null, device_port |-> Null] :
        st \in Statuses \ {"connected"}, m \in ServerMessages}
    \cup {[status |-> "connected", message |-> "", device_ip |-> a.ip,
           device_port |-> a.port] : a \in Addrs}

\* A poll whose failed fetch gives up: the failure branch would clear the
\* interval and display an error.
StatusResponse_FailureStopsPolling ==
    /\ statusPending > 0
    /\ statusPending' = statusPending - 1
    /\ \/ /\ pollFailures' = IF watch THEN 1 - pollFailures ELSE pollFailures
          /\ stopWirelessPolling
          /\ updateWirelessStatus(MsgStartError, "error")
          /\ UNCHANGED <<connectModalHidden, wirelessPairingHidden,
                         wirelessSuccessHidden, wirelessDevice, connectPending,
                         connectRequests, chain, pairConnects, timedOut,
                         ignoredStatuses>>
       \/ \E data \in StatusResponses :
            /\ data.status = "connected" => Len(connectRequests) < MaxPairConnects
            /\ handleWirelessStatus(data)
            /\ UNCHANGED pollFailures
    /\ UNCHANGED <<currentTab, wirelessIdleHidden, startPending,
                   stopPairPending, cancelled>>
    /\ UNCHANGED <<isConnected, deviceScreen, screenshotPending,
                   screenRefreshInterval, refreshTimers, screenTicks, manualVars>>
    /\ UNCHANGED execVars


\* the rest of the interval callback once the response of
\* '/api/device/wireless/status' is there
StatusResponse ==
    /\ statusPending > 0
    /\ statusPending' = statusPending - 1
    /\ \/ \* the fetch or response.json() threw (console.error), or
          \* data.success is false
          /\ pollFailures' = IF watch THEN 1 - pollFailures ELSE pollFailures
          /\ UNCHANGED <<connectModalHidden, statusView, pollTimer,
                         wirelessPairingHidden, wirelessSuccessHidden,
                         wirelessDevice, connectPending, connectRequests, chain,
                         pairConnects, timedOut, ignoredStatuses>>
       \/ \E data \in StatusResponses :
            /\ data.status = "connected" => Len(connectRequests) < MaxPairConnects
            /\ handleWirelessStatus(data)
            /\ UNCHANGED pollFailures
    /\ UNCHANGED <<currentTab, wirelessIdleHidden, startPending,
                   stopPairPending, cancelled>>
    /\ UNCHANGED <<isConnected, deviceScreen, screenshotPending,
                   screenRefreshInterval, refreshTimers, screenTicks, manualVars>>
    /\ UNCHANGED execVars

\* the rest of refreshScreen() once the response is there
ScreenshotResponse ==
    /\ screenshotPending > 0
    /\ screenshotPending' = screenshotPending - 1
    /\ \/ \E f \in Frames : deviceScreen' = f
       \/ UNCHANGED deviceScreen
    /\ UNCHANGED <<isConnected, connectPending, connectRequests,
                   screenRefreshInterval, refreshTimers, screenTicks, manualVars>>
    /\ UNCHANGED <<execVars, pairVars>>

\* variant: the tick refreshes the screen whether a task executes or not
ScreenTick_IgnoresExecuting ==
    \E t \in refreshTimers :
        /\ screenshotPending < MaxInFlight
        /\ screenTicks' = 1 - screenTicks
        /\ screenshotPending' = refreshScreen(screenshotPending)
        /\ UNCHANGED <<isConnected, deviceScreen, connectPending, connectRequests,
                       screenRefreshInterval, refreshTimers, manualVars>>
        /\ UNCHANGED <<execVars, pairVars>>

\* a tick of an interval created by startScreenRefresh
ScreenTick ==
    \E t \in refreshTimers :
        /\ ~isExecuting => screenshotPending < MaxInFlight
        /\ screenTicks' = 1 - screenTicks
        /\ screenshotPending' =
              IF ~isExecuting THEN refreshScreen(screenshotPending)
              ELSE screenshotPending
        /\ UNCHANGED <<isConnected, deviceScreen, connectPending, connectRequests,
                       screenRefreshInterval, refreshTimers, manualVars>>
        /\ UNCHANGED <<execVars, pairVars>>

\* a click on btnRefresh
RefreshButton ==
    /\ screenshotPending < MaxInFlight
    /\ screenshotPending' = refreshScreen(screenshotPending)
    /\ UNCHANGED <<isConnected, deviceScreen, connectPending, connectRequests,
                   screenRefreshInterval, refreshTimers, screenTicks, manualVars>>
    /\ UNCHANGED <<execVars, pairVars>>

\* variant: handleScreenClick checks the connection only
handleScreenClick_NoRunningGuard ==
    IF ~isConnected THEN UNCHANGED clickPending
    ELSE /\ clickPending < MaxInFlight
         /\ clickPending' = clickPending + 1

\* handleScreenClick(e) up to its fetch
handleScreenClick ==
    IF ~isConnected \/ isExecuting THEN UNCHANGED clickPending
    ELSE /\ clickPending < MaxInFlight
         /\ clickPending' = clickPending + 1

\* pressKey(key) up to its fetch
pressKey ==
    IF ~isConnected \/ isExecuting THEN UNCHANGED keyPending
    ELSE /\ keyPending < MaxInFlight
         /\ keyPending' = keyPending + 1

\* a click on touchCanvas
ScreenClick ==
    /\ handleScreenClick
    /\ controlCalls' = 1 - controlCalls
    /\ UNCHANGED <<keyPending, refreshDelays>>
    /\ UNCHANGED <<isConnected, deviceScreen, screenshotPending, connectPending,
                   connectRequests, screenRefreshInterval, refreshTimers,
                   screenTicks>>
    /\ UNCHANGED <<execVars, pairVars>>

\* a click on one of the key buttons
KeyButton ==
    /\ pressKey
    /\ controlCalls' = 1 - controlCalls
    /\ UNCHANGED <<clickPending, refreshDelays>>
    /\ UNCHANGED <<isConnected, deviceScreen, screenshotPending, connectPending,
                   connectRequests, screenRefreshInterval, refreshTimers,
                   screenTicks>>
    /\ UNCHANGED <<execVars, pairVars>>

\* the fetch of '/api/device/click' resolves (the refresh is scheduled) or
\* rejects (console.error)
ClickResponse ==
    /\ clickPending > 0
    /\ clickPending' = clickPending - 1
    /\ \/ /\ refreshDelays < MaxInFlight
          /\ refreshDelays' = refreshDelays + 1
       \/ UNCHANGED refreshDelays
    /\ UNCHANGED <<keyPending, controlCalls>>
    /\ UNCHANGED <<isConnected, deviceScreen, screenshotPending, connectPending,
                   connectRequests, screenRefreshInterval, refreshTimers,
                   screenTicks>>
    /\ UNCHANGED <<execVars, pairVars>>

\* the fetch of '/api/device/keyevent' resolves or rejects
KeyResponse ==
    /\ keyPending > 0
    /\ keyPending' = keyPending - 1
    /\ \/ /\ refreshDelays < MaxInFlight
          /\ refreshDelays' = refreshDelays + 1
       \/ UNCHANGED refreshDelays
    /\ UNCHANGED <<clickPending, controlCalls>>
    /\ UNCHANGED <<isConnected, deviceScreen, screenshotPending, connectPending,
                   connectRequests, screenRefreshInterval, refreshTimers,
                   screenTicks>>
    /\ UNCHANGED <<execVars, pairVars>>

\* the timeout set after a click or a key press fires: refreshScreen()
DelayedRefresh ==
    /\ refreshDelays > 0
    /\ refreshDelays' = refreshDelays - 1
    /\ screenshotPending < MaxInFlight
    /\ screenshotPending' = refreshScreen(screenshotPending)
    /\ UNCHANGED <<clickPending, keyPending, controlCalls>>
    /\ UNCHANGED <<isConnected, deviceScreen, connectPending, connectRequests,
                   screenRefreshInterval, refreshTimers, screenTicks>>
    /\ UNCHANGED <<execVars, pairVars>>

\* -------------------------------------------------------------- execution
setExecutingState(executing) ==
    /\ isExecuting' = executing
    /\ btnSendHidden' = executing
    /\ btnStopHidden' = ~executing
    /\ inputDisabled' = executing

NewSession(task) ==
    [pc |-> "fetching", task |-> task, text |-> <<>>, rest |-> <<>>,
     pending |-> <<>>, buffer |-> <<>>, handed |-> <<>>, consumed |-> <<>>,
     refreshCalls |-> 0, failed |-> FALSE]

\* the sessions whose streaming request is open
Open == { s \in DOMAIN sessions : sessions[s].pc \in {"fetching", "reading"} }

\* the user edits the enabled text area
TypeInput ==
    /\ ~inputDisabled
    /\ \E v \in InputTexts : messageInput' = v
    /\ UNCHANGED <<isExecuting, btnSendHidden, btnStopHidden, inputDisabled,
                   chat, sessions, stopPending, clearPending, linesLeft, menu, cuts, watch>>
    /\ UNCHANGED <<devVars, pairVars>>

\* variant: the isExecuting guard is missing
executeTask_NoRunningGuard(value) ==
    LET task == trim(value)
    IN  IF task = <<>> \/ ~isConnected THEN
            /\ messageInput' = value
            /\ UNCHANGED <<isExecuting, btnSendHidden, btnStopHidden,
                           inputDisabled, chat, sessions>>
        ELSE
            /\ Len(sessions) < MaxTasks
            /\ messageInput' = <<>>
            /\ chat' = addMessage(SelectSeq(chat, LAMBDA e : e.cls # "welcome"),
                                  "user", task)
            /\ setExecutingState(TRUE)
            /\ sessions' = Append(sessions, NewSession(task))

\* variant: the user message is appended before the connection is checked
executeTask_MessageFirst(value) ==
    LET task == trim(value)
    IN  IF task = <<>> \/ isExecuting THEN
            /\ messageInput' = value
            /\ UNCHANGED <<isExecuting, btnSendHidden, btnStopHidden,
                           inputDisabled, chat, sessions>>
        ELSE IF ~isConnected THEN
            /\ messageInput' = <<>>
            /\ chat' = addMessage(SelectSeq(chat, LAMBDA e : e.cls # "welcome"),
                                  "user", task)
            /\ UNCHANGED <<isExecuting, btnSendHidden, btnStopHidden,
                           inputDisabled, sessions>>
        ELSE
            /\ Len(sessions) < MaxTasks
            /\ messageInput' = <<>>
            /\ chat' = addMessage(SelectSeq(chat, LAMBDA e : e.cls # "welcome"),
                                  "user", task)
            /\ setExecutingState(TRUE)
            /\ sessions' = Append(sessions, NewSession(task))

\* executeTask() up to its fetch, called with messageInput.value = value
executeTask(value) ==
    LET task == trim(value)
    IN  IF task = <<>> \/ ~isConnected \/ isExecuting THEN
            /\ messageInput' = value
            /\ UNCHANGED <<isExecuting, btnSendHidden, btnStopHidden,
                           inputDisabled, chat, sessions>>
        ELSE
            /\ Len(sessions) < MaxTasks
            /\ messageInput' = <<>>
            /\ chat' = addMessage(SelectSeq(chat, LAMBDA e : e.cls # "welcome"),
                                  "user", task)
            /\ setExecutingState(TRUE)
            /\ sessions' = Append(sessions, NewSession(task))

\* a click on btnSend, or Enter in the text area
ExecuteTask ==
    /\ executeTask(messageInput)
    /\ UNCHANGED <<stopPending, clearPending, linesLeft, menu, cuts, watch>>
    /\ UNCHANGED <<devVars, pairVars>>

\* a click on a quick button
QuickButton ==
    /\ \E msg \in QuickMsgs : executeTask(msg)
    /\ UNCHANGED <<stopPending, clearPending, linesLeft, menu, cuts, watch>>
    /\ UNCHANGED <<devVars, pairVars>>

\* the finally block of executeTask for session s, given the sessions value
\* the try/catch left behind
Finally(s, ss) ==
    /\ setExecutingState(FALSE)
    /\ screenshotPending' = refreshScreen(screenshotPending)
    /\ sessions' = [ss EXCEPT ![s].pc = "ended",
                              ![s].text = <<>>,
                              ![s].rest = <<>>,
                              ![s].handed = <<>>,
                              ![s].pending = <<>>,
                              ![s].buffer = <<>>,
                              ![s].consumed = <<>>,
                              ![s].refreshCalls = @ + IF isConnected THEN 1 ELSE 0]

\* variant: the catch block renders nothing
Catch_Silent(log, message) == log

\* the catch block of executeTask
Catch(log, message) == addSystemMessage(log, <<"ERR">> \o message, "error")

\* the fetch of '/api/chat/execute' resolves: the server's text is fixed here
ExecuteResponse(s) ==
    /\ sessions[s].pc = "fetching"
    /\ \E n \in 0..linesLeft :
         \E ls \in SeqsOf(menu, n), terminated \in BOOLEAN :
            LET body == IF terminated \/ n = 0 THEN Join(ls) ELSE Front(Join(ls))
            IN  /\ sessions' = [sessions EXCEPT ![s].pc = "reading",
                                                ![s].text = body,
                                                ![s].rest = body]
                /\ linesLeft' = linesLeft - n
    /\ UNCHANGED <<isExecuting, btnSendHidden, btnStopHidden, inputDisabled,
                   messageInput, chat, stopPending, clearPending, menu, cuts, watch>>
    /\ UNCHANGED <<devVars, pairVars>>

\* the fetch rejects, or response.body is null: catch, finally
ExecuteFail(s) ==
    /\ sessions[s].pc = "fetching"
    /\ \E m \in {<<"Failed to fetch">>, <<"no body">>} : chat' = Catch(chat, m)
    /\ Finally(s, [sessions EXCEPT ![s].failed = TRUE])
    /\ UNCHANGED <<messageInput, stopPending, clearPending, linesLeft, menu, cuts, watch>>
    /\ UNCHANGED <<isConnected, deviceScreen, connectPending, connectRequests,
                   screenRefreshInterval, refreshTimers, screenTicks, manualVars>>
    /\ UNCHANGED pairVars

\* the sizes of the next fragment: any prefix of the unread bytes, or only
\* prefixes that end with a line
ChunkSizes(rest) ==
    IF cuts = "any" THEN 0..Len(rest)
    ELSE { n \in 1..Len(rest) : rest[n] = NL \/ n = Len(rest) }

\* reader.read() resolves with a fragment of n bytes: one loop iteration
ReadChunk(s) ==
    /\ sessions[s].pc = "reading"
    /\ \E n \in ChunkSizes(sessions[s].rest) :
        LET se == sessions[s]
            r == ReadIteration([chat |-> chat, screen |-> deviceScreen,
                                handed |-> se.handed],
                               se.pending, se.buffer, SubSeq(se.rest, 1, n))
        IN  /\ chat' = r.chat
            /\ deviceScreen' = r.screen
            /\ sessions' = [sessions EXCEPT ![s].rest = slice(se.rest, n),
                                            ![s].pending = r.pending,
                                            ![s].buffer = r.buffer,
                                            ![s].consumed = @ \o r.lines,
                                            ![s].handed = r.handed]
    /\ UNCHANGED <<isExecuting, btnSendHidden, btnStopHidden, inputDisabled,
                   messageInput, stopPending, clearPending, linesLeft, menu, cuts, watch>>
    /\ UNCHANGED <<isConnected, screenshotPending, connectPending, connectRequests,
                   screenRefreshInterval, refreshTimers, screenTicks, manualVars>>
    /\ UNCHANGED pairVars

\* variant: at the end of the stream the text left in the buffer is
\* processed as a last line
ReadDone_FlushesBuffer(s) ==
    /\ sessions[s].pc = "reading"
    /\ sessions[s].rest = <<>>
    /\ LET r == ProcessLines([chat |-> chat, screen |-> deviceScreen,
                              handed |-> sessions[s].handed],
                             <<sessions[s].buffer>>)
       IN  /\ chat' = r.chat
           /\ deviceScreen' = r.screen
    /\ Finally(s, sessions)
    /\ UNCHANGED <<messageInput, stopPending, clearPending, linesLeft, menu, cuts, watch>>
    /\ UNCHANGED <<isConnected, connectPending, connectRequests,
                   screenRefreshInterval, refreshTimers, screenTicks, manualVars>>
    /\ UNCHANGED pairVars

\* reader.read() resolves with done: break, finally
ReadDone(s) ==
    /\ sessions[s].pc = "reading"
    /\ sessions[s].rest = <<>>
    /\ Finally(s, sessions)
    /\ UNCHANGED <<messageInput, chat, stopPending, clearPending, linesLeft, menu, cuts, watch>>
    /\ UNCHANGED <<isConnected, deviceScreen, connectPending, connectRequests,
                   screenRefreshInterval, refreshTimers, screenTicks, manualVars>>
    /\ UNCHANGED pairVars

\* variant: a failed read renders the error but skips the finally block
ReadFail_NoFinally(s) ==
    /\ sessions[s].pc = "reading"
    /\ chat' = Catch(chat, <<"network error">>)
    /\ sessions' = [sessions EXCEPT ![s].pc = "ended", ![s].text = <<>>,
                                    ![s].rest = <<>>, ![s].handed = <<>>,
                                    ![s].pending = <<>>, ![s].buffer = <<>>,
                                    ![s].consumed = <<>>]
    /\ UNCHANGED <<isExecuting, btnSendHidden, btnStopHidden, inputDisabled>>
    /\ UNCHANGED <<messageInput, stopPending, clearPending, linesLeft, menu, cuts, watch>>
    /\ UNCHANGED <<devVars, pairVars>>

\* reader.read() rejects: catch, finally
ReadFail(s) ==
    /\ sessions[s].pc = "reading"
    /\ chat' = Catch(chat, <<"network error">>)
    /\ Finally(s, [sessions EXCEPT ![s].failed = TRUE])
    /\ UNCHANGED <<messageInput, stopPending, clearPending, linesLeft, menu, cuts, watch>>
    /\ UNCHANGED <<isConnected, deviceScreen, connectPending, connectRequests,
                   screenRefreshInterval, refreshTimers, screenTicks, manualVars>>
    /\ UNCHANGED pairVars

\* stopExecution() up to its fetch (a click on btnStop)
StopExecution ==
    /\ stopPending < MaxInFlight
    /\ stopPending' = stopPending + 1
    /\ UNCHANGED <<isExecuting, btnSendHidden, btnStopHidden, inputDisabled,
                   messageInput, chat, sessions, clearPending, linesLeft, menu, cuts, watch>>
    /\ UNCHANGED <<devVars, pairVars>>

\* variant: the response of the stop request ends the execution state
StopResponse_EndsSession ==
    /\ stopPending > 0
    /\ stopPending' = stopPending - 1
    /\ setExecutingState(FALSE)
    /\ UNCHANGED <<messageInput, chat, sessions, clearPending, linesLeft, menu,
                   cuts, watch>>
    /\ UNCHANGED <<devVars, pairVars>>

\* the stop request resolves or rejects: a toast or a console message
StopResponse ==
    /\ stopPending > 0
    /\ stopPending' = stopPending - 1
    /\ UNCHANGED <<isExecuting, btnSendHidden, btnStopHidden, inputDisabled,
                   messageInput, chat, sessions, clearPending, linesLeft, menu, cuts, watch>>
    /\ UNCHANGED <<devVars, pairVars>>

\* clearChat() up to its fetch (a click on btnClear)
ClearChat ==
    /\ clearPending < MaxInFlight
    /\ clearPending' = clearPending + 1
    /\ UNCHANGED <<isExecuting, btnSendHidden, btnStopHidden, inputDisabled,
                   messageInput, chat, sessions, stopPending, linesLeft, menu, cuts, watch>>
    /\ UNCHANGED <<devVars, pairVars>>

\* the rest of clearChat(): the log is replaced by the welcome message
ClearResponse ==
    /\ clearPending > 0
    /\ clearPending' = clearPending - 1
    /\ chat' = <<WelcomeEntry>>
    /\ UNCHANGED <<isExecuting, btnSendHidden, btnStopHidden, inputDisabled,
                   messageInput, sessions, stopPending, linesLeft, menu, cuts, watch>>
    /\ UNCHANGED <<devVars, pairVars>>

\* the state after a USB connect whose first screenshot has arrived
InitConnected ==
    /\ isConnected = TRUE
    /\ deviceScreen = "frame"
    /\ screenshotPending = 0
    /\ connectPending = 0
    /\ connectRequests = << <<"usb1">> >>
    /\ screenRefreshInterval = 1
    /\ refreshTimers = {1}
    /\ screenTicks = 0
    /\ clickPending = 0
    /\ keyPending = 0
    /\ refreshDelays = 0
    /\ controlCalls = 0

\* lines for the session life cycle: the content of the stream matters little
SessionMenu == { Data(<<"{", "d", "}">>) }

\* the state after a quick button has started a session on a connected device
InitStarted ==
    /\ isExecuting = TRUE
    /\ btnSendHidden = TRUE
    /\ btnStopHidden = FALSE
    /\ inputDisabled = TRUE
    /\ messageInput = <<>>
    /\ chat = <<Entry("user", <<"q">>)>>
    /\ sessions = <<NewSession(<<"q">>)>>
    /\ stopPending = 0
    /\ clearPending = 0

\* one stream read to its end, with fragments cut anywhere
NextDecode ==
    \/ \E s \in DOMAIN sessions : ExecuteResponse(s)
    \/ \E s \in DOMAIN sessions : ExecuteFail(s)
    \/ \E s \in DOMAIN sessions : ReadChunk(s)
    \/ \E s \in DOMAIN sessions : ReadDone(s)
    \/ \E s \in DOMAIN sessions : ReadFail(s)

InitDecode ==
    /\ InitStarted /\ InitConnected /\ InitPair
    /\ menu = DecodeMenu /\ cuts = "any" /\ linesLeft = MaxLines /\ watch = FALSE

SpecDecode == InitDecode /\ [][NextDecode]_vars

\* the sessions and the render log, on a connected device
NextRender ==
    \/ QuickButton
    \/ NextDecode
    \/ ClearChat
    \/ ClearResponse

InitRender ==
    /\ InitExec /\ InitConnected /\ InitPair
    /\ menu = RenderMenu /\ cuts = "line" /\ linesLeft = RenderLines /\ watch = FALSE

SpecRender == InitRender /\ [][NextRender]_vars

\* the whole execution side, from construction
NextSession ==
    \/ ShowConnectModal
    \/ ConnectDevice
    \/ ConnectResponse
    \/ TypeInput
    \/ ExecuteTask
    \/ QuickButton
    \/ NextDecode

InitSession ==
    /\ InitExec /\ InitDev /\ InitPair
    /\ menu = SessionMenu /\ cuts = "line" /\ linesLeft = SessionLines /\ watch = FALSE

SpecSession == InitSession /\ [][NextSession]_vars

\* one stream read to its end on a connected device, fragments cut at lines;
\* every stream eventually ends or fails
InitStream ==
    /\ InitStarted /\ InitConnected /\ InitPair
    /\ menu = RenderMenu /\ cuts = "line" /\ linesLeft = MaxLines /\ watch = FALSE

FairStream ==
    /\ InitStream
    /\ [][NextDecode]_vars
    /\ WF_vars(\E s \in DOMAIN sessions :
                    ExecuteFail(s) \/ ReadDone(s) \/ ReadFail(s))

\* ------------------------------------------------------------------ claims
\* the bytes session s has received so far
Received(s) ==
    SubSeq(sessions[s].text, 1, Len(sessions[s].text) - Len(sessions[s].rest))

\* the records handed to handleStepResult when `bytes` arrive as one fragment
OneFragment(bytes) ==
    ReadIteration([chat |-> <<>>, screen |-> Null, handed |-> <<>>],
                  <<>>, <<>>, bytes).handed

\* the pairing dialog: the polling of the status, the user's buttons and the
\* automatic connect
NextPair ==
    \/ ShowConnectModal
    \/ HideConnectModal
    \/ SwitchTab
    \/ StartWirelessPairing
    \/ StartResponse
    \/ StopWirelessPairing
    \/ StopPairResponse
    \/ PollTick
    \/ StatusResponse

InitPairing ==
    /\ InitExec /\ InitDev /\ InitPair
    /\ menu = {} /\ cuts = "line" /\ linesLeft = 0 /\ watch = FALSE

SpecPair == InitPairing /\ [][NextPair]_vars

\* C1: however the text is cut into fragments, the records handed to
\* handleStepResult so far are, in order, exactly those handed when the bytes
\* received so far arrive as one fragment (so also once the whole text is in)
C1_FragmentsDoNotMatter ==
    \A s \in DOMAIN sessions :
        sessions[s].pc = "reading" =>
            sessions[s].handed = OneFragment(Received(s))

\* C1 witness: two records were handed and the last fragment ended inside the
\* 'data: ' prefix of the next line
C1_Witness ==
    \E s \in DOMAIN sessions :
        /\ sessions[s].pc = "reading"
        /\ Len(sessions[s].handed) = 2
        /\ sessions[s].buffer = <<"d", "a", "t">>
        /\ sessions[s].rest # <<>>

\* the complete lines (as characters) among the bytes received so far
CompleteLines(s) ==
    LET sent == split(sessions[s].text)
        k == Cardinality({ i \in 1..Len(Received(s)) : Received(s)[i] = NL })
    IN  [i \in 1..k |-> decodeBytes(sent[i]).chars]

WellFormed(line) == startsWith(line, DataPrefix) /\ JSONparse(slice(line, 6)).ok

Malformed(line) == startsWith(line, DataPrefix) /\ ~JSONparse(slice(line, 6)).ok

\* the records of the well-formed lines, in order
RecordsOf(lines) ==
    LET good == SelectSeq(lines, WellFormed)
    IN  [i \in 1..Len(good) |-> JSONparse(slice(good[i], 6)).value]

RECURSIVE Rendered(_, _)
\* the render log after the records have been applied one by one
Rendered(log, records) ==
    IF records = <<>> THEN log
    ELSE Rendered(handleStepResult([chat |-> log, screen |-> Null],
                                   Head(records)).chat,
                  Tail(records))

\* C2: while the stream is read the session stays active, the records handed
\* to handleStepResult are exactly those of the complete lines that begin with
\* 'data: ' and parse (a line without the prefix or with a payload that does
\* not parse hands nothing and stops nothing), and the log holds the user
\* message followed by what those records render and nothing else
C2_BadLinesDropped ==
    \A s \in DOMAIN sessions :
        sessions[s].pc = "reading" =>
            /\ isExecuting
            /\ sessions[s].handed = RecordsOf(CompleteLines(s))
            /\ chat = Rendered(<<Entry("user", sessions[s].task)>>, sessions[s].handed)

\* C2 witness: a line without the prefix and a 'data: ' line that does not
\* parse were consumed, and a well-formed line after both was dispatched
C2_Witness ==
    \E s \in DOMAIN sessions :
        /\ sessions[s].pc = "reading"
        /\ LET ls == CompleteLines(s)
           IN  /\ Len(ls) = 3
               /\ ~startsWith(ls[1], DataPrefix)
               /\ Malformed(ls[2])
               /\ WellFormed(ls[3])
        /\ Len(sessions[s].handed) = 1
        /\ isExecuting

\* C3: at most one streaming request is open in every state, and no step taken
\* while isExecuting is true opens another
C3_OneSession ==
    /\ [](Cardinality(Open) <= 1)
    /\ [][isExecuting => Len(sessions') = Len(sessions)]_vars

\* C3 witness: a quick button was clicked while the session was active (its
\* message is left in the input) and still one request is open
C3_Witness ==
    /\ isExecuting
    /\ messageInput = <<"q">>
    /\ Cardinality(Open) = 1

\* C4: a call of executeTask while a session is active, while no device is
\* connected, or with an empty task, issues no request, appends nothing to the
\* log, and leaves isExecuting, the buttons and the input state as they were
C4_RejectedLocally ==
    [][\A v \in InputTexts \cup QuickMsgs :
          ( /\ executeTask(v)
            /\ (isExecuting \/ ~isConnected \/ trim(v) = <<>>) )
          => /\ sessions' = sessions
             /\ chat' = chat
             /\ isExecuting' = isExecuting
             /\ inputDisabled' = inputDisabled
             /\ btnSendHidden' = btnSendHidden
             /\ btnStopHidden' = btnStopHidden]_vars

\* C4 witness: a quick button was clicked before any device was connected
C4_Witness ==
    /\ ~isConnected
    /\ messageInput = <<"q">>
    /\ sessions = <<>>
    /\ chat = <<WelcomeEntry>>

EndState ==
    /\ ~isExecuting
    /\ ~inputDisabled
    /\ ~btnSendHidden
    /\ btnStopHidden

\* C5: the step that ends a session (stream done, fetch failed, read failed)
\* leaves isExecuting false, the input enabled and the send button shown, and
\* makes exactly one refreshScreen call, which issues one screenshot request;
\* and an active session whose stream ends or fails reaches that state
C5_SessionEnd ==
    /\ [][\A s \in DOMAIN sessions :
            (sessions[s].pc # "ended" /\ sessions'[s].pc = "ended") =>
                /\ EndState'
                /\ sessions'[s].refreshCalls = 1
                /\ screenshotPending' = screenshotPending + 1]_vars
    /\ (isExecuting ~> EndState)

\* C5 witness: a session ended by a failed read after some of its records
\* were rendered
C5_Witness ==
    /\ \E s \in DOMAIN sessions :
          sessions[s].pc = "ended" /\ sessions[s].refreshCalls = 1
    /\ EndState
    /\ screenshotPending = 1
    /\ Len(chat) >= 3
    /\ chat[Len(chat)] = Entry("error", <<"ERR", "network error">>)

\* the thinking placeholders of a log, and its other entries
Thinkings(log) == SelectSeq(log, LAMBDA e : e.cls = "thinking")

Others(log) == SelectSeq(log, LAMBDA e : e.cls # "thinking")

TypeOf(data) == IF data.json = "object" THEN data.type ELSE "none"

\* the last position of events whose type is in kinds, 0 when there is none
LastOf(events, kinds) ==
    IF \E i \in 1..Len(events) : TypeOf(events[i]) \in kinds
    THEN CHOOSE i \in 1..Len(events) :
            /\ TypeOf(events[i]) \in kinds
            /\ \A j \in (i + 1)..Len(events) : TypeOf(events[j]) \notin kinds
    ELSE 0

\* the class of the message an event of each kind is rendered as (spec 4.2)
MessageClass ==
    [k \in {"start", "info", "update", "action", "done", "completed", "failed",
            "error", "stopped", "warning"} |->
        CASE k \in {"start", "info", "update"} -> "info"
          [] k = "action" -> "action"
          [] k \in {"done", "completed"} -> "success"
          [] k \in {"failed", "error"} -> "error"
          [] k \in {"stopped", "warning"} -> "warning"]

\* the messages the events other than 'thinking' are rendered as
MessagesOf(events) ==
    LET shown == SelectSeq(events, LAMBDA d : TypeOf(d) \in DOMAIN MessageClass)
    IN  [i \in 1..Len(shown) |-> Entry(MessageClass[shown[i].type], shown[i].message)]

\* C6: the log never holds two thinking placeholders; when a fragment's events
\* are applied, the placeholder shows the text of the last 'thinking' event
\* unless an 'action' (or failure, stop) event came after it, in which case
\* there is none; a 'thinking' event adds no entry when a placeholder is
\* there (it stays where it is), and every other event adds its one message
C6_OnePlaceholder ==
    /\ [](Len(Thinkings(chat)) <= 1)
    /\ [][\A s \in DOMAIN sessions :
            ( /\ sessions[s].pc = "reading"
              /\ sessions'[s].pc = "reading"
              /\ sessions'[s].rest # sessions[s].rest ) =>
            LET events == SubSeq(sessions'[s].handed,
                                 Len(sessions[s].handed) + 1,
                                 Len(sessions'[s].handed))
                t == LastOf(events, {"thinking"})
                r == LastOf(events, {"action", "failed", "error", "stopped"})
                i == querySelector(chat, "thinking")
            IN  /\ t > r =>
                      Thinkings(chat') = <<Entry("thinking", events[t].message)>>
                /\ r > t => Thinkings(chat') = <<>>
                /\ (t = 0 /\ r = 0) => Thinkings(chat') = Thinkings(chat)
                /\ Others(chat') = Others(chat) \o MessagesOf(events)
                /\ (i # 0 /\ r = 0) => chat'[i].cls = "thinking"]_vars

\* C6 witness: 'thinking' A and then 'thinking' B were applied, and the log
\* holds the user message and one placeholder showing B
C6_Witness ==
    \E s \in DOMAIN sessions :
        /\ sessions[s].pc = "reading"
        /\ Len(sessions[s].handed) = 2
        /\ sessions[s].handed[1].type = "thinking"
        /\ sessions[s].handed[1].message = <<"A">>
        /\ sessions[s].handed[2].type = "thinking"
        /\ sessions[s].handed[2].message = <<"B">>
        /\ chat = <<Entry("user", <<"q">>), Entry("thinking", <<"B">>)>>


\* ------------------------------------------------------------- C7 .. C10
\* the address a handled 'connected' status carried, as the success panel
\* shows it
Shown(a) == <<"device address: ", a.ip, ":", a.port>>

\* C7: when the statuses handled since the start of the pairing are
\* waiting_scan, pairing, pair_success, connecting, connected in that order,
\* handling the last one shows the success panel with the address of the
\* status, clears the poll timer and issues one '/api/device/connect' request
\* whose serial is ip ":" port, the only one of the pairing session so far;
\* and as long as no further status is handled that request stays the only one.
C7_SequenceConnects ==
    /\ [][chain = 4 /\ chain' = 5 =>
            \E a \in Addrs :
                /\ wirelessDevice' = Shown(a)
                /\ ~wirelessSuccessHidden'
                /\ wirelessPairingHidden'
                /\ wirelessPollingInterval' = NoTimer
                /\ pollTimers' = {}
                /\ connectRequests' = Append(connectRequests, <<a.ip, ":", a.port>>)
                /\ connectPending' = connectPending + 1
                /\ pairConnects' = 1]_vars
    /\ [](chain = 5 => pairConnects = 1)

\* C7 witness: the five statuses were handled in order, the last one with the
\* address 10.0.0.5:5555, and the one connect request carries that serial
C7_Witness ==
    /\ chain = 5
    /\ pairConnects = 1
    /\ wirelessDevice = <<"device address: ", "10.0.0.5", ":", "5555">>
    /\ ~wirelessSuccessHidden
    /\ connectRequests = << <<"10.0.0.5", ":", "5555">> >>
    /\ wirelessPollingInterval = NoTimer

\* C8: within one pairing session connectWirelessDevice is called at most
\* once, however the ticks of the poll and the responses of their status
\* requests interleave.
C8_ConnectAtMostOnce == pairConnects <= 1

\* C9: handling 'timeout' shows the timeout and clears the poll timer, and a
\* status response that arrives after it, the response of a request that was
\* in flight included, changes neither the pairing display nor the connect
\* requests.
C9_TimeoutIsTerminal ==
    /\ [][~timedOut /\ timedOut' =>
            /\ statusMessage' = MsgTimeout
            /\ wirelessStatusClass' = "error"
            /\ wirelessPollingInterval' = NoTimer]_vars
    /\ [][timedOut /\ statusPending' < statusPending =>
            UNCHANGED <<statusView, panels, wirelessDevice, connectRequests>>]_vars

\* C10: once stopWirelessPairing was called the pairing panel goes back to
\* idle when its request is over, no status request is issued any more, and
\* the response of a status request that was in flight leaves the pairing
\* display, the poll timer and the connect requests as they are.
C10_CancelStopsPolling ==
    /\ [][stopPairPending' < stopPairPending =>
            /\ ~wirelessIdleHidden'
            /\ wirelessPairingHidden'
            /\ wirelessSuccessHidden'
            /\ wirelessStatusClass' = ""]_vars
    /\ [][cancelled /\ cancelled' => statusPending' <= statusPending]_vars
    /\ [][cancelled /\ statusPending' < statusPending =>
            UNCHANGED <<statusView, panels, wirelessDevice, pollTimer,
                        connectRequests>>]_vars


\* ------------------------------------------------------------ C11 .. C20
\* the screen of a connected device: the refresh interval, the refresh
\* button, and execution sessions with their stop button
NextScreen ==
    \/ ScreenTick
    \/ ScreenshotResponse
    \/ RefreshButton
    \/ QuickButton
    \/ StopExecution
    \/ StopResponse
    \/ NextDecode

InitScreen ==
    /\ InitExec /\ InitConnected /\ InitPair
    /\ menu = SessionMenu /\ cuts = "line" /\ linesLeft = SessionLines /\ watch = FALSE

SpecScreen == InitScreen /\ [][NextScreen]_vars

\* C11: a tick of a refresh interval leaves the intervals alive; while
\* isExecuting it issues no screenshot request, otherwise it issues one; and
\* the end of an execution session leaves the intervals as they are, so the
\* ticks after it refresh the screen without a new startScreenRefresh.
C11_TicksSkipWhileExecuting ==
    /\ [][screenTicks' # screenTicks =>
            /\ refreshTimers' = refreshTimers
            /\ screenRefreshInterval' = screenRefreshInterval
            /\ isExecuting => screenshotPending' = screenshotPending
            /\ ~isExecuting => screenshotPending' = screenshotPending + 1]_vars
    /\ [][isExecuting /\ ~isExecuting' =>
            /\ refreshTimers' = refreshTimers
            /\ refreshTimers' # {}]_vars

\* C11 witness: a session has ended, the frame it asked for has arrived, and
\* a tick after it has a screenshot request in flight
C11_Witness ==
    /\ Len(sessions) = 1
    /\ sessions[1].pc = "ended"
    /\ ~isExecuting
    /\ screenTicks = 1
    /\ screenshotPending = 1
    /\ Cardinality(refreshTimers) = 1

\* C12: at most one interval of the pairing poll is alive: the live intervals
\* are none when wirelessPollingInterval is null and otherwise exactly the one
\* it references, whatever startWirelessPairing, its response,
\* stopWirelessPairing, hideConnectModal and switchTab did before.
C12_OnePollTimer ==
    /\ Cardinality(pollTimers) <= 1
    /\ (pollTimers = {}) <=> (wirelessPollingInterval = NoTimer)
    /\ pollTimers # {} => pollTimers = {wirelessPollingInterval}

\* C12 witness: the poll is alive and a further start request is in flight,
\* so its response will call startWirelessPolling with an interval alive
C12_Witness ==
    /\ wirelessPollingInterval # NoTimer
    /\ pollTimers = {wirelessPollingInterval}
    /\ startPending = 1
    /\ ~wirelessPairingHidden

\* C13: at most one refresh interval is alive: after any number of
\* successful connects the live intervals are exactly the one
\* screenRefreshInterval references.
C13_OneRefreshTimer ==
    /\ Cardinality(refreshTimers) <= 1
    /\ isConnected => refreshTimers = {screenRefreshInterval}

\* the place of the displayed pairing state on the path waiting_scan,
\* pairing, pair_success, connecting, connected; 0 for every other display
DisplayRank ==
    IF ~wirelessSuccessHidden THEN 5
    ELSE IF wirelessStatusClass # "pairing" THEN 0
    ELSE IF statusMessage = MsgScan THEN 1
    ELSE IF statusMessage = MsgPairing THEN 2
    ELSE IF statusMessage = MsgPairSuccess THEN 3
    ELSE IF statusMessage = MsgConnecting THEN 4
    ELSE 0

\* C14: a status response never moves the displayed state back to an earlier
\* state of the path, and it moves it forward by one state at most: a status
\* that is not the successor of the displayed state is not applied.
C14_ForwardOnly ==
    [][(statusPending' < statusPending /\ DisplayRank > 0 /\ DisplayRank' > 0) =>
            DisplayRank' \in {DisplayRank, DisplayRank + 1}]_vars

\* the pairing panel shows the failure of a 'pair_failed', 'connect_failed'
\* or 'error' status
FailureShown ==
    /\ wirelessStatusClass = "error"
    /\ statusMessage \in {MsgFailed} \cup (ServerMessages \ {""})

\* C15: when a status response leaves the failure of the pairing displayed,
\* no poll interval is alive after it, and while the failure is displayed a
\* status response changes neither the display nor the connect requests.
C15_FailureIsTerminal ==
    /\ [][(statusPending' < statusPending /\ FailureShown') =>
            pollTimers' = {}]_vars
    /\ [][(statusPending' < statusPending /\ FailureShown) =>
            UNCHANGED <<statusView, panels, wirelessDevice, connectRequests>>]_vars

\* C16: the step in which an execution session ends in its catch block (the
\* fetch or a read failed) appends one error entry to the render log, leaves
\* isExecuting false and issues no further '/api/chat/execute' request; and a
\* session that has ended never changes again.
C16_FailureRenderedOnce ==
    /\ [][\A s \in DOMAIN sessions :
            (sessions[s].pc # "ended" /\ s \in DOMAIN sessions'
             /\ sessions'[s].pc = "ended" /\ sessions'[s].failed) =>
                /\ Len(chat') = Len(chat) + 1
                /\ SubSeq(chat', 1, Len(chat)) = chat
                /\ Last(chat').cls = "error"
                /\ ~isExecuting'
                /\ Len(sessions') = Len(sessions)]_vars
    /\ [][\A s \in DOMAIN sessions :
            sessions[s].pc = "ended" =>
                (s \in DOMAIN sessions' /\ sessions'[s] = sessions[s])]_vars

\* C16 witness: the first session failed after one event was rendered, its
\* error is the last entry of the log, and a second session has started
C16_Witness ==
    /\ Len(sessions) = 2
    /\ sessions[1].pc = "ended"
    /\ sessions[1].failed
    /\ sessions[2].pc = "fetching"
    /\ Len(chat) = 4
    /\ chat[3].cls = "error"
    /\ chat[4].cls = "user"

\* C17: stopExecution and the response of its request, successful or not,
\* change neither isExecuting, the input, the buttons, the sessions with their
\* stream readers nor the render log; isExecuting becomes false only in a step
\* that ends the stream of the open session.
C17_StopOnlySignals ==
    /\ [][stopPending' # stopPending =>
            UNCHANGED <<isExecuting, inputDisabled, btnSendHidden, btnStopHidden,
                        sessions, chat>>]_vars
    /\ [][(isExecuting /\ ~isExecuting') =>
            \E s \in Open : sessions'[s].pc = "ended"]_vars

\* C17 witness: the stop request is in flight while the session still reads
\* its stream
C17_Witness ==
    /\ stopPending = 1
    /\ isExecuting
    /\ inputDisabled
    /\ Len(sessions) = 1
    /\ sessions[1].pc = "reading"
    /\ sessions[1].rest # <<>>

\* C18: while the connect dialog is dismissed, and after stopWirelessPairing
\* until the next startWirelessPairing, no interval of the pairing poll is
\* alive, whenever the response of a start request arrives.
C18_NoPollAfterDismissal == (connectModalHidden \/ cancelled) => pollTimers = {}

\* The pairing poll alone, with the failures of the poll counted: the dialog,
\* the wireless tab, the start of a pairing session, the ticks of the interval
\* and the responses of the status requests.
NextPoll ==
    \/ ShowConnectModal
    \/ SwitchTab
    \/ StartWirelessPairing
    \/ StartResponse
    \/ PollTick
    \/ StatusResponse

InitPoll ==
    /\ InitExec /\ InitDev /\ InitPair
    /\ menu = {} /\ cuts = "line" /\ linesLeft = 0 /\ watch = TRUE

SpecPoll == InitPoll /\ [][NextPoll]_vars

\* C19: the response of a status request whose fetch failed, or whose body
\* has success false, only completes the request: the displayed state, the
\* panels, the device, the dialog, the connect requests and the interval of
\* the poll are unchanged, so an alive interval stays alive and its next
\* tick fetches again; a status response clears an alive interval only when
\* it handled 'connected' or reached the timeout.
C19_FailedPollIsIgnored ==
    /\ [][pollFailures' # pollFailures =>
            /\ statusPending' = statusPending - 1
            /\ UNCHANGED <<connectModalHidden, currentTab, panels, statusView,
                           wirelessDevice, pollTimer, startPending,
                           connectPending, connectRequests, chain, timedOut>>]_vars
    /\ [][(statusPending' < statusPending /\ pollTimers # {} /\ pollTimers' = {}) =>
            \/ ~wirelessSuccessHidden'
            \/ timedOut']_vars

\* A poll failed, nothing of the status sequence was applied, the interval
\* is alive and its next tick has issued a status request.
C19_Witness ==
    /\ pollFailures = 1
    /\ statusMessage = MsgScan /\ wirelessStatusClass = "pairing"
    /\ pollTimers # {} /\ wirelessPollingInterval # NoTimer
    /\ statusPending = 1

\* C20: an interval of the pairing poll is created only by a successful
\* response of the start request, and after a failed response of the start
\* request the error is displayed and no interval is alive.
C20_PollOnlyAfterStart ==
    /\ [][(pollTimers = {} /\ pollTimers' # {}) =>
            /\ startPending' < startPending
            /\ wirelessStatusClass' = "pairing"
            /\ statusMessage' = MsgScan]_vars
    /\ [][(startPending' < startPending /\ wirelessStatusClass' = "error") =>
            /\ statusMessage' \in {MsgStartFailed, MsgStartError}
                                    \cup (ServerMessages \ {""})
            /\ pollTimers' = {}]_vars

\* ---------------------------------------------------------- C21 .. C28
\* C21: a status response whose status is 'idle', or a status no case of
\* the switch names, only completes the request while a pairing session is
\* active: the displayed status, the panels, the device text, the dialog,
\* the interval of the poll, the connection state and the render log are
\* unchanged, so no error is displayed.
C21_IdleStatusIsNoOp ==
    [][ignoredStatuses' # ignoredStatuses =>
            /\ statusPending' = statusPending - 1
            /\ UNCHANGED <<statusView, panels, wirelessDevice, pollTimer,
                           connectModalHidden, currentTab, startPending,
                           isConnected, connectPending, connectRequests,
                           pairConnects, timedOut, chat>>]_vars

\* The poll is running, 'pairing' is displayed, and a status outside the
\* switch has been handled.
C21_Witness ==
    /\ ignoredStatuses = 1
    /\ statusMessage = MsgPairing /\ wirelessStatusClass = "pairing"
    /\ ~wirelessPairingHidden
    /\ pollTimers # {} /\ wirelessPollingInterval # NoTimer

RECURSIVE States(_, _)
\* the render states [chat, screen] an initial state goes through when the
\* events are applied one after the other: the first is ui, the last is the
\* state after the last event
States(ui, events) ==
    IF events = <<>> THEN <<ui>>
    ELSE LET r == handleStepResult(ui, Head(events))
         IN  <<ui>> \o States([chat |-> r.chat, screen |-> r.screen], Tail(events))

\* what each event does to the log, u being the states the events went through
OneEntryEach(u, events) ==
    \A i \in 1..Len(events) :
        LET e == events[i]
            was == u[i].chat
            now == u[i + 1].chat
        IN  /\ e.type \in DOMAIN MessageClass =>
                  /\ Last(now) = Entry(MessageClass[e.type], e.message)
                  /\ Others(now) = Append(Others(was), Last(now))
            /\ e.type = "thinking" =>
                  /\ Others(now) = Others(was)
                  /\ Thinkings(now) = <<Entry("thinking", e.message)>>
            /\ e.type \notin DOMAIN MessageClass \cup {"thinking"} => now = was

\* the records of the complete lines of the first n bytes of a text
RecordsIn(text, n) ==
    LET k == Cardinality({ i \in 1..n : text[i] = NL })
        sent == split(text)
    IN  RecordsOf([i \in 1..k |-> decodeBytes(sent[i]).chars])

\* the events a step from `was` to `now` applied to ui, in arrival order
ArrivalOrder(ui, was, now, events) ==
    LET u == States(ui, events)
    IN  /\ now.handed = was.handed \o events
        /\ chat' = Last(u).chat
        /\ deviceScreen' = Last(u).screen
        /\ OneEntryEach(u, events)

\* one stream read to its end on a connected device, fragments cut at lines
SpecStream == InitStream /\ [][NextDecode]_vars

\* C22: the step that consumes a fragment applies the records of the lines
\* the fragment completes, in the order the server sent them, one after the
\* other to the render log and the device frame: the state after the step is
\* the state after the last of them, each event of a kind that renders a
\* message appends exactly its one message at the end of the log, a
\* 'thinking' event leaves the other entries alone and an event of another
\* kind leaves the log alone; the records are all handed in that same step.
C22_AppliedInArrivalOrder ==
    [][\A s \in DOMAIN sessions :
        ( /\ sessions[s].pc = "reading"
          /\ sessions'[s].pc = "reading"
          /\ sessions'[s].rest # sessions[s].rest ) =>
        LET was == sessions[s]
            now == sessions'[s]
            before == RecordsIn(was.text, Len(was.text) - Len(was.rest))
            after == RecordsIn(was.text, Len(was.text) - Len(now.rest))
        IN  /\ SubSeq(after, 1, Len(before)) = before
            /\ ArrivalOrder([chat |-> chat, screen |-> deviceScreen], was, now,
                            SubSeq(after, Len(before) + 1, Len(after)))]_vars

\* An 'action' event and then a 'thinking' event were applied: the log holds
\* the user message, the action message and the placeholder, in that order.
C22_Witness ==
    \E s \in DOMAIN sessions :
        /\ sessions[s].pc = "reading"
        /\ Len(sessions[s].handed) = 2
        /\ sessions[s].handed[1].type = "action"
        /\ sessions[s].handed[2].type = "thinking"
        /\ chat = <<Entry("user", <<"q">>), Entry("action", <<"A">>),
                    Entry("thinking", sessions[s].handed[2].message)>>

\* lines for the device frame: an event of a kind the switch does not name
\* with and without a screenshot, a 'thinking' event with another
\* screenshot, and a 'done' event without one
FrameMenu ==
    { Data(<<"{", "x", "#", "}">>),
      Data(<<"{", "x", "}">>),
      Data(<<"{", "t", "%", "A", "}">>),
      Data(<<"{", "d", "}">>) }

\* one stream of events with screenshots read to its end
InitFrame ==
    /\ InitStarted /\ InitConnected /\ InitPair
    /\ menu = FrameMenu /\ cuts = "line" /\ linesLeft = MaxLines /\ watch = FALSE

SpecFrame == InitFrame /\ [][NextDecode]_vars

\* the frame displayed after the events: the screenshot of the last event
\* that carries one, and `frame` when no event does
LastShot(events, frame) ==
    LET carrying == { i \in 1..Len(events) : events[i].screenshot # Null }
    IN  IF carrying = {} THEN frame
        ELSE events[CHOOSE i \in carrying : \A j \in carrying : j <= i].screenshot

\* C23: while the stream is read and nothing else writes the frame, the
\* displayed frame is the screenshot of the last event received so far that
\* carries one, whatever the kind of that event, and the frame the session
\* started with when no event carried one: an event with a screenshot
\* replaces the frame, an event without one leaves it.
C23_ScreenshotReplacesFrame ==
    \A s \in DOMAIN sessions :
        sessions[s].pc = "reading" =>
            deviceScreen =
                LastShot(RecordsIn(sessions[s].text, Len(Received(s))), "frame")

\* A 'thinking' event with a screenshot, then an event of an unnamed kind
\* with another screenshot, then a 'done' event without one: the frame is
\* the screenshot of the unnamed kind.
C23_Witness ==
    \E s \in DOMAIN sessions :
        /\ sessions[s].pc = "reading"
        /\ Len(sessions[s].handed) = 3
        /\ sessions[s].handed[1].type = "thinking"
        /\ sessions[s].handed[1].screenshot = "shot2"
        /\ sessions[s].handed[2].type = "other"
        /\ sessions[s].handed[2].screenshot = "shot"
        /\ sessions[s].handed[3].type = "done"
        /\ sessions[s].handed[3].screenshot = Null
        /\ deviceScreen = "shot"

\* C24: when the stream ends, every record of a line terminated by a
\* newline has been handed to handleStepResult and nothing else has, and the
\* step that ends the stream hands nothing: the log and the frame are as they
\* were, whatever text is left in the buffer.
C24_LeftoverDiscarded ==
    [][\A s \in DOMAIN sessions :
        ( /\ sessions[s].pc = "reading"
          /\ sessions'[s].pc = "ended"
          /\ ~sessions'[s].failed ) =>
            /\ sessions[s].rest = <<>>
            /\ sessions[s].handed = RecordsIn(sessions[s].text, Len(sessions[s].text))
            /\ chat' = chat
            /\ deviceScreen' = deviceScreen]_vars

\* The whole text has been read, one record was handed, and the buffer holds
\* a well-formed 'data: ' record that no newline terminates.
C24_Witness ==
    \E s \in DOMAIN sessions :
        /\ sessions[s].pc = "reading"
        /\ sessions[s].rest = <<>>
        /\ sessions[s].text # <<>> /\ Last(sessions[s].text) # NL
        /\ WellFormed(sessions[s].buffer)
        /\ Len(sessions[s].handed) = 1
        /\ ENABLED ReadDone(s)

\* C28: after every fragment the buffer holds no newline and is the text
\* decoded since the last newline received, and the lines the for loop went
\* over so far, each followed by a newline, followed by the buffer are the
\* whole text decoded so far (a byte the decoder holds back for the next
\* fragment is not text yet).
C28_BufferIsTail ==
    \A s \in DOMAIN sessions :
        sessions[s].pc = "reading" =>
            LET text == decodeBytes(Received(s)).chars
            IN  /\ IndexOf(sessions[s].buffer, NL) = 0
                /\ sessions[s].buffer = Last(split(text))
                /\ Join(sessions[s].consumed) \o sessions[s].buffer = text

\* Two lines were consumed, and the last fragment ended between the two
\* bytes of a character of the third line.
C28_Witness ==
    \E s \in DOMAIN sessions :
        /\ sessions[s].pc = "reading"
        /\ Len(sessions[s].consumed) = 2
        /\ sessions[s].buffer = DataPrefix \o <<"{", "t">>
        /\ sessions[s].pending = <<"C3">>
        /\ sessions[s].rest # <<>>

\* C26: whenever no session is active, the render log holds no thinking
\* placeholder.
C26_NoPlaceholderAfterEnd == ~isExecuting => Thinkings(chat) = <<>>

\* the device panel: the clicks on the screen and the key buttons, their
\* delayed refreshes, the refresh button, the refresh interval and the
\* sessions, started either during a session on a connected device or
\* before any device is connected
\* lines for the device panel: one event that carries a screenshot
ManualMenu == { Data(<<"{", "x", "#", "}">>) }

NextManual ==
    \/ ScreenClick
    \/ KeyButton
    \/ ClickResponse
    \/ KeyResponse
    \/ DelayedRefresh
    \/ RefreshButton
    \/ ScreenTick
    \/ ScreenshotResponse
    \/ QuickButton
    \/ NextDecode

InitManual ==
    /\ \/ InitStarted /\ InitConnected
       \/ InitExec /\ InitDev
    /\ InitPair
    /\ menu = ManualMenu /\ cuts = "line" /\ linesLeft = SessionLines /\ watch = FALSE

SpecManual == InitManual /\ [][NextManual]_vars

\* C25: while a session is active, every step that changes the displayed
\* frame is a step of the stream reader that hands events to
\* handleStepResult.
C25_OnlyStreamWritesFrame ==
    [][(isExecuting /\ deviceScreen' # deviceScreen) =>
            \E s \in DOMAIN sessions :
                /\ sessions[s].pc = "reading"
                /\ sessions'[s].handed # sessions[s].handed]_vars

\* C27: a call of handleScreenClick or pressKey made while a session is
\* active or while no device is connected issues no click or key request,
\* schedules no refresh and issues no screenshot request.
C27_ManualControlLocked ==
    [][(controlCalls' # controlCalls /\ (isExecuting \/ ~isConnected)) =>
            UNCHANGED <<clickPending, keyPending, refreshDelays,
                        screenshotPending, deviceScreen>>]_vars

\* The first session is still reading its stream and a click or a key press
\* was made since it started: nothing is in flight and nothing is scheduled.
C27_Witness ==
    /\ isExecuting /\ isConnected
    /\ Len(sessions) = 1 /\ sessions[1].pc = "reading"
    /\ sessions[1].task = <<"q">> /\ sessions[1].handed # <<>>
    /\ controlCalls = 1
    /\ clickPending = 0 /\ keyPending = 0 /\ refreshDelays = 0
    /\ screenshotPending = 0

====
